---- MODULE Spec2Model ----
(***************************************************************************)
(* The three CAMELS US loaders of camelsus.py as one state machine.  A     *)
(* caller makes one call at a time; the directory tree the call reads and  *)
(* its arguments are chosen when the call is made, each statement group of *)
(* the loader is one action, and the locals of the running call are the    *)
(* variables.  pandas values are modelled by what the calls do to them:    *)
(* frames are records of an index, a column list and column data, cell     *)
(* values carry their dtype, and strings are sequences of characters.      *)
(***************************************************************************)
EXTENDS Integers, Sequences, FiniteSets

VARIABLES
    fn,          \* the running loader, "none" between calls
    pc,          \* position in the running loader
    dirExists,   \* whether the directory the loader resolves exists
    attrFiles,   \* attributes: the camels_*.txt files, in glob order
    tree,        \* forcings/discharge: basin prefix of each data file, in glob order
    content,     \* forcings/discharge: what the data file the loader reads holds
    basins,      \* argument of load_camels_us_attributes
    basin,       \* argument of the forcing and discharge loaders
    txt_files,   \* attributes: files the loop has still to read
    dfs,         \* attributes: frames read so far
    df,          \* the frame under construction (None before it is assigned)
    file_path,   \* forcings/discharge: glob result, then its first element
    area,        \* forcings: header value read; discharge: the argument
    open,        \* file handles this call holds open
    ret,         \* the returned value (None if nothing was returned)
    raised       \* the exception that ended the call ("" if none)

vars == <<fn, pc, dirExists, attrFiles, tree, content, basins, basin,
          txt_files, dfs, df, file_path, area, open, ret, raised>>

----------------------------------------------------------------------------
(* Bounds of the model and constants of the data set.                      *)

NumBasins == 2     \* basin identifiers are 1..NumBasins
MaxRows == 2       \* rows of one attribute file
MaxFilter == 2     \* length of the basins argument
MaxTree == 2       \* data files under a forcing or streamflow directory
MaxDays == 2       \* rows of one forcing or streamflow file
MaxArea == 1       \* largest catchment area

NumHucs == 18      \* "the 18 HUCS"

BasinIds == 1..NumBasins
Areas == (-1)..MaxArea

None == <<>>
Some(x) == <<x>>

Range(s) == {s[i] : i \in 1..Len(s)}

\* Sequences over S of length at most n.
SeqsUpTo(S, n) == UNION {[1..k -> S] : k \in 0..n}

\* Those of them that are in non-decreasing order (files sorted by gauge id,
\* a directory walk in name order).
SortedSeqsUpTo(S, n) ==
    {s \in SeqsUpTo(S, n) : \A i \in 1..(Len(s) - 1) : s[i] <= s[i + 1]}

----------------------------------------------------------------------------
(* Cell values: a dtype tag, a number for the numeric dtypes, characters   *)
(* for strings.                                                            *)

IntVal(n) == [t |-> "int", n |-> n, s |-> <<>>]
FloatVal(n) == [t |-> "float", n |-> n, s |-> <<>>]
NaN == [t |-> "nan", n |-> 0, s |-> <<>>]
StrVal(s) == [t |-> "str", n |-> 0, s |-> s]

Digits == <<"0", "1", "2", "3", "4", "5", "6", "7", "8", "9">>

RECURSIVE IntToStr(_)
\* str(n) of a non-negative int
IntToStr(n) ==
    IF n < 10 THEN <<Digits[n + 1]>>
    ELSE IntToStr(n \div 10) \o <<Digits[(n % 10) + 1]>>

\* str(x) of an int, of a float holding a whole number, and of NaN
PyStr(x) ==
    CASE x.t = "int" -> IntToStr(x.n)
      [] x.t = "float" -> IntToStr(x.n) \o <<".", "0">>
      [] x.t = "nan" -> <<"n", "a", "n">>
      [] OTHER -> x.s

RECURSIVE ZFill(_, _)
\* s.zfill(width) of a string without a sign
ZFill(s, width) == IF Len(s) >= width THEN s ELSE ZFill(<<"0">> \o s, width)

----------------------------------------------------------------------------
(* The attribute files.  camels_name.txt carries huc_02 and gauge_name,    *)
(* camels_clim.txt carries p_mean; every file is keyed by gauge_id.  A     *)
(* file on disk is [group, ok, ids]: ok says whether it parses into a      *)
(* table with a gauge_id column, ids are the gauge_id of its rows.         *)

AttributeGroups == {"name", "clim"}

GroupColumns(group) ==
    IF group = "name" THEN <<"huc_02", "gauge_name">> ELSE <<"p_mean">>

\* The region a basin lies in: the first basin in region 1, the others in
\* the last region, so that one-digit and two-digit codes both occur.
HucOf(b) == IF b = 1 THEN 1 ELSE NumHucs

\* The value the file of `group` holds in column c of its i-th row.
FileCell(group, ids, c, i) ==
    IF c = "huc_02" THEN IntVal(HucOf(ids[i])) ELSE IntVal(10 * ids[i] + i)

AttributeFile ==
    {[group |-> g, ok |-> TRUE, ids |-> r] :
        g \in AttributeGroups, r \in SortedSeqsUpTo(BasinIds, MaxRows)}
    \cup {[group |-> g, ok |-> FALSE, ids |-> <<>>] : g \in AttributeGroups}

\* What attributes_path.glob('camels_*.txt') can yield: at most one file of
\* each group, in any order.
AttributeListings ==
    {l \in SeqsUpTo(AttributeFile, Cardinality(AttributeGroups)) :
        \A i, j \in 1..Len(l) : i # j => l[i].group # l[j].group}

\* pd.read_csv(txt_file, sep=';', header=0, dtype={'gauge_id': str})
\* followed by set_index('gauge_id')
ReadAttributeFile(f) ==
    [index |-> f.ids,
     columns |-> GroupColumns(f.group),
     data |-> [c \in Range(GroupColumns(f.group)) |->
                  [i \in 1..Len(f.ids) |-> FileCell(f.group, f.ids, c, i)]]]

----------------------------------------------------------------------------
(* pd.concat(dfs, axis=1): the frames side by side, rows aligned on the    *)
(* index.                                                                  *)

HasDuplicates(s) == \E i, j \in 1..Len(s) : i # j /\ s[i] = s[j]

RECURSIVE Unique(_)
\* the elements of s in order of first appearance
Unique(s) ==
    IF s = <<>> THEN <<>>
    ELSE LET front == Unique(SubSeq(s, 1, Len(s) - 1))
             last == s[Len(s)]
         IN IF last \in Range(front) THEN front ELSE Append(front, last)

RECURSIVE Flatten(_)
Flatten(ss) == IF ss = <<>> THEN <<>> ELSE Head(ss) \o Flatten(Tail(ss))

AllIndexesSame(frames) == \A i \in 1..Len(frames) : frames[i].index = frames[1].index

\* The row labels of an inner join: the labels of the first frame that
\* every frame has.
IntersectIndexes(frames) ==
    IF AllIndexesSame(frames) THEN frames[1].index
    ELSE SelectSeq(Unique(frames[1].index),
                   LAMBDA b : \A i \in 1..Len(frames) : b \in Range(frames[i].index))

\* The row labels of the result (join='outer', sort=False): the first
\* frame's index when all are the same, else the distinct labels in order
\* of first appearance.
UnionIndexes(frames) ==
    IF AllIndexesSame(frames) THEN frames[1].index
    ELSE Unique(Flatten([i \in 1..Len(frames) |-> frames[i].index]))

\* A frame whose index differs from the result's is reindexed, which pandas
\* refuses for an index with duplicates.
ConcatRefuses(frames) ==
    \E i \in 1..Len(frames) :
        /\ frames[i].index # UnionIndexes(frames)
        /\ HasDuplicates(frames[i].index)

PositionOf(label, index) == CHOOSE i \in 1..Len(index) : index[i] = label

\* An integer column that gets a missing value becomes a float column.
Upcast(v) == IF v.t = "int" THEN FloatVal(v.n) ELSE v

ReindexColumn(column, index, labels) ==
    IF index = labels THEN column
    ELSE LET holes == \E j \in 1..Len(labels) : labels[j] \notin Range(index)
         IN [j \in 1..Len(labels) |->
                IF labels[j] \notin Range(index) THEN NaN
                ELSE IF holes THEN Upcast(column[PositionOf(labels[j], index)])
                ELSE column[PositionOf(labels[j], index)]]

OwnerOf(c, frames) == CHOOSE i \in 1..Len(frames) : c \in Range(frames[i].columns)

Concat(frames) ==
    LET labels == UnionIndexes(frames)
        columns == Flatten([i \in 1..Len(frames) |-> frames[i].columns])
    IN [index |-> labels,
        columns |-> columns,
        data |-> [c \in Range(columns) |->
                     LET f == frames[OwnerOf(c, frames)]
                     IN ReindexColumn(f.data[c], f.index, labels)]]

----------------------------------------------------------------------------
(* df['huc'] = df['huc_02'].apply(lambda x: str(x).zfill(2)), then         *)
(* df.drop('huc_02', axis=1).                                              *)

HucWidth == 2

HucString(x) == StrVal(ZFill(PyStr(x), HucWidth))

DeriveHuc(frame) ==
    LET kept == SelectSeq(frame.columns, LAMBDA c : c # "huc_02")
        columns == Append(kept, "huc")
    IN [index |-> frame.index,
        columns |-> columns,
        data |-> [c \in Range(columns) |->
                     IF c = "huc"
                     THEN [i \in 1..Len(frame.index) |-> HucString(frame.data["huc_02"][i])]
                     ELSE frame.data[c]]]

----------------------------------------------------------------------------
(* The basin filter: any(b not in df.index for b in basins), df.loc[basins]*)

AllMissing(list, index) == \A i \in 1..Len(list) : list[i] \notin Range(index)

AnyMissing(list, index) == \E i \in 1..Len(list) : list[i] \notin Range(index)

\* The positions a boolean mask df.index.isin(list) takes: table order.
IsinPositions(list, index) ==
    SelectSeq([i \in 1..Len(index) |-> i], LAMBDA i : index[i] \in Range(list))

\* The positions of the rows df.loc[list] takes: for each label of the list
\* in turn, every row with that label, in table order.
LocPositions(list, index) ==
    Flatten([k \in 1..Len(list) |->
                SelectSeq([i \in 1..Len(index) |-> i], LAMBDA i : index[i] = list[k])])

TakeRows(frame, positions) ==
    [index |-> [k \in 1..Len(positions) |-> frame.index[positions[k]]],
     columns |-> frame.columns,
     data |-> [c \in Range(frame.columns) |->
                  [k \in 1..Len(positions) |-> frame.data[c][positions[k]]]]]

Loc(frame, list) == TakeRows(frame, LocPositions(list, frame.index))

----------------------------------------------------------------------------
(* The date index: pd.to_datetime(df.Year.map(str) + "/" +                 *)
(* df.Mnth.map(str) + "/" + df.Day.map(str), format="%Y/%m/%d").           *)

\* The calendar days the rows of the data files are drawn from; 1999 has
\* no 29 February.
CalendarRows ==
    {[Year |-> 1999, Mnth |-> 2, Day |-> 29],
     [Year |-> 2000, Mnth |-> 2, Day |-> 29],
     [Year |-> 2000, Mnth |-> 12, Day |-> 1]}

IsLeap(y) == (y % 4 = 0 /\ y % 100 # 0) \/ y % 400 = 0

DaysInMonth(y, m) ==
    IF m = 2 THEN (IF IsLeap(y) THEN 29 ELSE 28)
    ELSE IF m \in {4, 6, 9, 11} THEN 30 ELSE 31

IsDigits(s) == s # <<>> /\ \A i \in 1..Len(s) : s[i] \in Range(Digits)

DigitValue(ch) == (CHOOSE i \in 1..Len(Digits) : Digits[i] = ch) - 1

RECURSIVE StrToInt(_)
StrToInt(s) ==
    IF s = <<>> THEN 0
    ELSE 10 * StrToInt(SubSeq(s, 1, Len(s) - 1)) + DigitValue(s[Len(s)])

RECURSIVE Split(_, _)
\* s.split(sep) for a one-character separator
Split(s, sep) ==
    IF \A i \in 1..Len(s) : s[i] # sep THEN <<s>>
    ELSE LET k == CHOOSE i \in 1..Len(s) :
                      s[i] = sep /\ \A j \in 1..(i - 1) : s[j] # sep
         IN <<SubSeq(s, 1, k - 1)>> \o Split(SubSeq(s, k + 1, Len(s)), sep)

\* The text of one row: str(Year) + "/" + str(Mnth) + "/" + str(Day)
DateText(year, month, day) ==
    PyStr(year) \o <<"/">> \o PyStr(month) \o <<"/">> \o PyStr(day)

\* A timestamp at midnight, or None for a field that does not parse or a
\* day the calendar does not have.  %Y takes four digits, %m and %d one or
\* two.
Timestamp(y, m, d) ==
    IF /\ IsDigits(y) /\ Len(y) = 4
       /\ IsDigits(m) /\ Len(m) <= 2
       /\ IsDigits(d) /\ Len(d) <= 2
       /\ StrToInt(m) \in 1..12
       /\ StrToInt(d) \in 1..DaysInMonth(StrToInt(y), StrToInt(m))
    THEN Some([year |-> StrToInt(y), month |-> StrToInt(m), day |-> StrToInt(d),
               hour |-> 0, minute |-> 0, second |-> 0])
    ELSE None

\* format="%Y/%d/%m"
StrptimeDayFirst(text) ==
    LET parts == Split(text, "/")
    IN IF Len(parts) # 3 THEN None ELSE Timestamp(parts[1], parts[3], parts[2])

\* format="%Y/%m/%d"
Strptime(text) ==
    LET parts == Split(text, "/")
    IN IF Len(parts) # 3 THEN None ELSE Timestamp(parts[1], parts[2], parts[3])

\* The parsed date of every row of the frame, in row order.
ToDatetime(frame) ==
    [i \in 1..Len(frame.index) |->
        Strptime(DateText(frame.data["Year"][i], frame.data["Mnth"][i],
                          frame.data["Day"][i]))]

\* df.set_index("date") on the parsed dates
SetDateIndex(frame, dates) ==
    [index |-> [i \in 1..Len(dates) |-> dates[i][1]],
     columns |-> frame.columns,
     data |-> frame.data]

\* pd.read_csv of a whitespace-delimited table: a default RangeIndex and
\* one integer column per name.
ReadTable(rows, columns) ==
    [index |-> [i \in 1..Len(rows) |-> i - 1],
     columns |-> columns,
     data |-> [c \in Range(columns) |-> [i \in 1..Len(rows) |-> IntVal(rows[i][c])]]]

----------------------------------------------------------------------------
(* The directory trees of the forcing and the discharge loader.  tree[i]   *)
(* is the basin the i-th data file is named after; a path is its position. *)

Trees == SortedSeqsUpTo(BasinIds, MaxTree)

\* glob('**/*_forcing_leap.txt'): every data file
GlobAll(names, b) == SelectSeq([i \in 1..Len(names) |-> i], LAMBDA i : TRUE)

\* list(path.glob(f'**/{basin}_..._.txt')): the files named after the basin
Glob(names, b) == SelectSeq([i \in 1..Len(names) |-> i], LAMBDA i : names[i] = b)

IsDirAlways(exists) == TRUE

\* forcing_path.is_dir()
IsDir(exists) == exists

LeakOnError(handles, fp) == handles

\* Leaving the with block, or the reader of pd.read_csv, on an exception.
CloseOnError(handles, fp) == handles \ {fp}

\* The third line of a forcing file: an area, an empty line, a fraction.
HeaderLines ==
    {IntToStr(a) : a \in 0..MaxArea} \cup {<<>>, <<"1", ".", "5">>}

ForcingColumns == <<"Year", "Mnth", "Day">>

ForcingContents ==
    {[header |-> h, ok |-> FALSE, rows |-> <<>>] : h \in HeaderLines}
    \cup {[header |-> h, ok |-> TRUE, rows |-> r] :
            h \in HeaderLines, r \in SeqsUpTo(CalendarRows, MaxDays)}

DischargeColumns == <<"Year", "Mnth", "Day", "QObs">>

DischargeValues == {-1, 0, 1}

DischargeRows ==
    {[Year |-> d.Year, Mnth |-> d.Mnth, Day |-> d.Day, QObs |-> q] :
        d \in CalendarRows, q \in DischargeValues}

DischargeContents ==
    {[ok |-> FALSE, rows |-> <<>>]}
    \cup {[ok |-> TRUE, rows |-> r] : r \in SeqsUpTo(DischargeRows, MaxDays)}

----------------------------------------------------------------------------
(* 28316846.592 * df.QObs * 86400 / (area * 10**6) and the mask            *)
(* df.QObs[df.QObs < 0] = np.nan.  A converted value is kept as its class  *)
(* (finite, inf, nan), its sign and the operands of the quotient.          *)

CubicFeetFactor == 28316846   \* 28316846.592, whole part
SecondsPerDay == 86400
Million == 1000000            \* 10**6

Sign(n) == IF n < 0 THEN -1 ELSE IF n > 0 THEN 1 ELSE 0

Abs(n) == IF n < 0 THEN -n ELSE n

MmPerDay(q, a) ==
    LET numerator == Sign(CubicFeetFactor) * Sign(q) * Sign(SecondsPerDay)
        denominator == a * Million
    IN IF denominator # 0
       THEN [t |-> "finite", sign |-> numerator * Sign(denominator),
             cfs |-> Abs(q), area |-> Abs(a)]
       ELSE IF numerator # 0
       THEN [t |-> "inf", sign |-> numerator, cfs |-> Abs(q), area |-> 0]
       ELSE [t |-> "nan", sign |-> 0, cfs |-> 0, area |-> 0]

NotANumber == [t |-> "nan", sign |-> 0, cfs |-> 0, area |-> 0]

IsNotPositive(x) == x.t # "nan" /\ x.sign <= 0

\* x < 0 of a float; false of nan
IsNegative(x) == x.t # "nan" /\ x.sign < 0

\* The series df.QObs the discharge loader returns.
DischargeSeries(frame, a) ==
    [index |-> frame.index,
     values |-> [i \in 1..Len(frame.index) |->
                    LET x == MmPerDay(frame.data["QObs"][i].n, a)
                    IN IF IsNegative(x) THEN NotANumber ELSE x]]

----------------------------------------------------------------------------
(* The exceptions the loaders end in.                                      *)

NoAttributeFolder == "RuntimeError: Attribute folder not found"
NoObjects == "ValueError: No objects to concatenate"
DuplicateIndex == "InvalidIndexError: Reindexing only valid with uniquely valued Index objects"
NoHucColumn == "KeyError: 'huc_02'"
MissingAttributes == "ValueError: Some basins are missing static attributes."
NoForcingDir == "OSError: forcing directory does not exist"
NoFile == "FileNotFoundError: No file for Basin"
BadArea == "ValueError: invalid literal for int() with base 10"
BadTable == "ParserError: Error tokenizing data"
BadDate == "ValueError: time data doesn't match format"

Init ==
    /\ fn = "none"
    /\ pc = "idle"
    /\ dirExists = FALSE
    /\ attrFiles = <<>>
    /\ tree = <<>>
    /\ content = None
    /\ basins = <<>>
    /\ basin = None
    /\ txt_files = <<>>
    /\ dfs = <<>>
    /\ df = None
    /\ file_path = None
    /\ area = None
    /\ open = {}
    /\ ret = None
    /\ raised = ""

disk == <<dirExists, attrFiles, tree, content>>
args == <<basins, basin>>

\* raise: the call ends with the exception and returns nothing
Raise(exception) ==
    /\ pc' = "done"
    /\ raised' = exception
    /\ ret' = None

----------------------------------------------------------------------------
(* load_camels_us_attributes(data_dir, basins)                             *)

CallAttributes ==
    /\ pc = "idle"
    /\ \E exists \in BOOLEAN, files \in AttributeListings,
          list \in SeqsUpTo(BasinIds, MaxFilter) :
        /\ ~exists => files = <<>>
        /\ dirExists' = exists
        /\ attrFiles' = files
        /\ basins' = list
    /\ fn' = "attributes"
    /\ pc' = "attr_exists"
    /\ UNCHANGED <<tree, content, basin, txt_files, dfs, df, file_path, area,
                   open, ret, raised>>

\* lines 31-39: the folder check, the glob, dfs = []
AttrCheckFolder ==
    /\ pc = "attr_exists"
    /\ IF ~dirExists
       THEN /\ Raise(NoAttributeFolder)
            /\ UNCHANGED <<txt_files, dfs>>
       ELSE /\ txt_files' = attrFiles
            /\ dfs' = <<>>
            /\ pc' = "attr_loop"
            /\ UNCHANGED <<ret, raised>>
    /\ UNCHANGED <<fn, disk, args, df, file_path, area, open>>

\* line 41: pd.read_csv opens the next file
AttrOpen ==
    /\ pc = "attr_loop"
    /\ txt_files # <<>>
    /\ open' = open \cup {Head(txt_files).group}
    /\ pc' = "attr_read"
    /\ UNCHANGED <<fn, disk, args, txt_files, dfs, df, file_path, area, ret, raised>>

\* lines 41-44: the file is parsed and closed, indexed by gauge_id, appended
AttrRead ==
    /\ pc = "attr_read"
    /\ LET f == Head(txt_files)
       IN IF ~f.ok
          THEN /\ open' = CloseOnError(open, f.group)
               /\ Raise(BadTable)
               /\ UNCHANGED <<txt_files, dfs>>
          ELSE /\ open' = open \ {f.group}
               /\ dfs' = Append(dfs, ReadAttributeFile(f))
               /\ txt_files' = Tail(txt_files)
               /\ pc' = "attr_loop"
               /\ UNCHANGED <<ret, raised>>
    /\ UNCHANGED <<fn, disk, args, df, file_path, area>>

\* line 46: df = pd.concat(dfs, axis=1)
AttrConcat ==
    /\ pc = "attr_loop"
    /\ txt_files = <<>>
    /\ IF dfs = <<>>
       THEN Raise(NoObjects) /\ UNCHANGED df
       ELSE IF ConcatRefuses(dfs)
       THEN Raise(DuplicateIndex) /\ UNCHANGED df
       ELSE /\ df' = Some(Concat(dfs))
            /\ pc' = "attr_huc"
            /\ UNCHANGED <<ret, raised>>
    /\ UNCHANGED <<fn, disk, args, txt_files, dfs, file_path, area, open>>

\* lines 48-49: the huc column replaces huc_02
AttrHuc ==
    /\ pc = "attr_huc"
    /\ IF "huc_02" \notin Range(df[1].columns)
       THEN Raise(NoHucColumn) /\ UNCHANGED df
       ELSE /\ df' = Some(DeriveHuc(df[1]))
            /\ pc' = "attr_filter"
            /\ UNCHANGED <<ret, raised>>
    /\ UNCHANGED <<fn, disk, args, txt_files, dfs, file_path, area, open>>

\* lines 51-56: the basin filter and the return
AttrFilter ==
    /\ pc = "attr_filter"
    /\ IF basins # <<>> /\ AnyMissing(basins, df[1].index)
       THEN Raise(MissingAttributes) /\ UNCHANGED df
       ELSE /\ df' = IF basins # <<>> THEN Some(Loc(df[1], basins)) ELSE df
            /\ ret' = df'
            /\ pc' = "done"
            /\ UNCHANGED raised
    /\ UNCHANGED <<fn, disk, args, txt_files, dfs, file_path, area, open>>

----------------------------------------------------------------------------
(* load_camels_us_forcings(data_dir, basin, forcings)                      *)

CallForcings ==
    /\ pc = "idle"
    /\ \E exists \in BOOLEAN, names \in Trees, b \in BasinIds,
          c \in ForcingContents \cup {None} :
        /\ ~exists => names = <<>>
        /\ c = None <=> names = <<>>
        /\ dirExists' = exists
        /\ tree' = names
        /\ content' = c
        /\ basin' = b
    /\ fn' = "forcings"
    /\ pc' = "forc_isdir"
    /\ UNCHANGED <<attrFiles, basins, txt_files, dfs, df, file_path, area,
                   open, ret, raised>>

\* lines 81-83: the directory of the forcing product must exist
ForcCheckDir ==
    /\ pc = "forc_isdir"
    /\ IF ~IsDir(dirExists)
       THEN Raise(NoForcingDir)
       ELSE pc' = "forc_glob" /\ UNCHANGED <<ret, raised>>
    /\ UNCHANGED <<fn, disk, args, txt_files, dfs, df, file_path, area, open>>

\* lines 85-89: the first matching file, or FileNotFoundError
ForcGlob ==
    /\ pc = "forc_glob"
    /\ LET found == Glob(tree, basin)
       IN IF found # <<>>
          THEN /\ file_path' = Some(found[1])
               /\ pc' = "forc_open"
               /\ UNCHANGED <<ret, raised>>
          ELSE /\ file_path' = Some(found)
               /\ Raise(NoFile)
    /\ UNCHANGED <<fn, disk, args, txt_files, dfs, df, area, open>>

\* line 91: with open(file_path, 'r') as fp
ForcOpen ==
    /\ pc = "forc_open"
    /\ open' = open \cup {file_path[1]}
    /\ pc' = "forc_header"
    /\ UNCHANGED <<fn, disk, args, txt_files, dfs, df, file_path, area, ret, raised>>

\* lines 93-95: two lines skipped, area = int(third line)
ForcHeader ==
    /\ pc = "forc_header"
    /\ IF IsDigits(content.header)
       THEN /\ area' = Some(StrToInt(content.header))
            /\ pc' = "forc_read"
            /\ UNCHANGED <<open, ret, raised>>
       ELSE /\ open' = CloseOnError(open, file_path[1])
            /\ Raise(BadArea)
            /\ UNCHANGED area
    /\ UNCHANGED <<fn, disk, args, txt_files, dfs, df, file_path>>

\* line 97: df = pd.read_csv(fp, sep='\s+')
ForcRead ==
    /\ pc = "forc_read"
    /\ IF content.ok
       THEN /\ df' = Some(ReadTable(content.rows, ForcingColumns))
            /\ pc' = "forc_date"
            /\ UNCHANGED <<open, ret, raised>>
       ELSE /\ open' = CloseOnError(open, file_path[1])
            /\ Raise(BadTable)
            /\ UNCHANGED df
    /\ UNCHANGED <<fn, disk, args, txt_files, dfs, file_path, area>>

\* lines 98-100: the date column is built and made the index
ForcDate ==
    /\ pc = "forc_date"
    /\ LET dates == ToDatetime(df[1])
       IN IF \A i \in 1..Len(dates) : dates[i] # None
          THEN /\ df' = Some(SetDateIndex(df[1], dates))
               /\ pc' = "forc_return"
               /\ UNCHANGED <<open, ret, raised>>
          ELSE /\ open' = CloseOnError(open, file_path[1])
               /\ Raise(BadDate)
               /\ UNCHANGED df
    /\ UNCHANGED <<fn, disk, args, txt_files, dfs, file_path, area>>

\* lines 91 and 102: the with block is left, return df, area
ForcReturn ==
    /\ pc = "forc_return"
    /\ open' = open \ {file_path[1]}
    /\ ret' = Some([df |-> df[1], area |-> area[1]])
    /\ pc' = "done"
    /\ UNCHANGED <<fn, disk, args, txt_files, dfs, df, file_path, area, raised>>

----------------------------------------------------------------------------
(* load_camels_us_discharge(data_dir, basin, area)                         *)

CallDischarge ==
    /\ pc = "idle"
    /\ \E exists \in BOOLEAN, names \in Trees, b \in BasinIds, a \in Areas,
          c \in DischargeContents \cup {None} :
        /\ ~exists => names = <<>>
        /\ c = None <=> names = <<>>
        /\ dirExists' = exists
        /\ tree' = names
        /\ content' = c
        /\ basin' = b
        /\ area' = Some(a)
    /\ fn' = "discharge"
    /\ pc' = "dis_glob"
    /\ UNCHANGED <<attrFiles, basins, txt_files, dfs, df, file_path, open, ret, raised>>

\* lines 125-130: the first matching file, or FileNotFoundError
DisGlob ==
    /\ pc = "dis_glob"
    /\ LET found == Glob(tree, basin)
       IN IF found # <<>>
          THEN /\ file_path' = Some(found[1])
               /\ pc' = "dis_open"
               /\ UNCHANGED <<ret, raised>>
          ELSE /\ file_path' = Some(found)
               /\ Raise(NoFile)
    /\ UNCHANGED <<fn, disk, args, txt_files, dfs, df, area, open>>

\* line 133: pd.read_csv opens the file
DisOpen ==
    /\ pc = "dis_open"
    /\ open' = open \cup {file_path[1]}
    /\ pc' = "dis_read"
    /\ UNCHANGED <<fn, disk, args, txt_files, dfs, df, file_path, area, ret, raised>>

\* lines 132-133: the table is parsed under the six column names, the file closed
DisRead ==
    /\ pc = "dis_read"
    /\ IF content.ok
       THEN /\ df' = Some(ReadTable(content.rows, DischargeColumns))
            /\ open' = open \ {file_path[1]}
            /\ pc' = "dis_date"
            /\ UNCHANGED <<ret, raised>>
       ELSE /\ open' = CloseOnError(open, file_path[1])
            /\ Raise(BadTable)
            /\ UNCHANGED df
    /\ UNCHANGED <<fn, disk, args, txt_files, dfs, file_path, area>>

\* lines 134-135: the date column is built and made the index
DisDate ==
    /\ pc = "dis_date"
    /\ LET dates == ToDatetime(df[1])
       IN IF \A i \in 1..Len(dates) : dates[i] # None
          THEN /\ df' = Some(SetDateIndex(df[1], dates))
               /\ pc' = "dis_convert"
               /\ UNCHANGED <<ret, raised>>
          ELSE Raise(BadDate) /\ UNCHANGED df
    /\ UNCHANGED <<fn, disk, args, txt_files, dfs, file_path, area, open>>

\* lines 138-142: the conversion to mm/day, the mask, return df.QObs
DisConvert ==
    /\ pc = "dis_convert"
    /\ ret' = Some(DischargeSeries(df[1], area[1]))
    /\ pc' = "done"
    /\ UNCHANGED <<fn, disk, args, txt_files, dfs, df, file_path, area, open, raised>>

----------------------------------------------------------------------------

\* The caller takes the result or the exception; the locals are gone.
Return ==
    /\ pc = "done"
    /\ fn' = "none"
    /\ pc' = "idle"
    /\ dirExists' = FALSE
    /\ attrFiles' = <<>>
    /\ tree' = <<>>
    /\ content' = None
    /\ basins' = <<>>
    /\ basin' = None
    /\ txt_files' = <<>>
    /\ dfs' = <<>>
    /\ df' = None
    /\ file_path' = None
    /\ area' = None
    /\ open' = {}
    /\ ret' = None
    /\ raised' = ""

Next ==
    \/ CallAttributes \/ AttrCheckFolder \/ AttrOpen \/ AttrRead
    \/ AttrConcat \/ AttrHuc \/ AttrFilter
    \/ CallForcings \/ ForcCheckDir \/ ForcGlob \/ ForcOpen \/ ForcHeader
    \/ ForcRead \/ ForcDate \/ ForcReturn
    \/ CallDischarge \/ DisGlob \/ DisOpen \/ DisRead \/ DisDate \/ DisConvert
    \/ Return

Spec == Init /\ [][Next]_vars

----------------------------------------------------------------------------
(* What the calls are checked against: the files as they are on disk.      *)

Ended(loader) == fn = loader /\ pc = "done"

\* The gauge ids found in some attribute file.
DiskIds == UNION {Range(attrFiles[i].ids) : i \in 1..Len(attrFiles)}

\* The columns found in some attribute file.
DiskColumns == UNION {Range(GroupColumns(attrFiles[i].group)) : i \in 1..Len(attrFiles)}

\* Lines 46-49 have run: the files are joined and huc is derived.
TableBuilt == df # None /\ "huc" \in Range(df[1].columns)

\* The table of lines 46-49, from the frames the call has read.
Joined == DeriveHuc(Concat(dfs))

IsMissing(v) == v.t = "nan"

\* The row has a day the calendar has.
ValidDay(row) ==
    /\ row.Mnth \in 1..12
    /\ row.Day \in 1..DaysInMonth(row.Year, row.Mnth)

Midnight(row) ==
    [year |-> row.Year, month |-> row.Mnth, day |-> row.Day,
     hour |-> 0, minute |-> 0, second |-> 0]

\* Every attribute file lists a basin at most once.
OneRowPerBasin ==
    \A i \in 1..Len(attrFiles) : ~HasDuplicates(attrFiles[i].ids)

\* The date index of what a forcing or discharge call returned.
ReturnedIndex == IF fn = "forcings" THEN ret[1].df.index ELSE ret[1].index

----------------------------------------------------------------------------

\* C1: a non-empty basin filter naming an identifier that is no row key of
\* the joined attribute table ends the call in ValueError 'missing static
\* attributes' and nothing is returned, not even the rows that are present.
C1_MissingBasinRaises ==
    (/\ Ended("attributes")
     /\ TableBuilt
     /\ basins # <<>>
     /\ \E i \in 1..Len(basins) : basins[i] \notin DiskIds)
    => raised = MissingAttributes /\ ret = None

\* C1 happens: a list with one present and one absent basin was refused.
C1_Witness ==
    /\ Ended("attributes")
    /\ raised = MissingAttributes
    /\ \E i, j \in 1..Len(basins) : basins[i] \in DiskIds /\ basins[j] \notin DiskIds

\* C2 as stated: for every basin filter list whose identifiers are all row
\* keys of the joined table, the returned table has exactly the requested
\* rows and its row keys are the requested list, in the order requested
\* (read for files that list a basin once).
C2_FilterReturnsRequestedList ==
    (/\ Ended("attributes")
     /\ TableBuilt
     /\ OneRowPerBasin
     /\ \A i \in 1..Len(basins) : basins[i] \in DiskIds)
    => /\ ret # None
       /\ ret[1].index = basins

\* C2 amended: for every non-empty basin filter list whose identifiers are
\* all row keys of the joined table, the returned table holds, for each
\* requested identifier in the order requested, the joined table's rows
\* with that key and nothing else; where the joined table has each key
\* once, its row keys are the requested list.
C2_NonEmptyFilterReturnsRequestedRows ==
    (/\ Ended("attributes")
     /\ TableBuilt
     /\ basins # <<>>
     /\ \A i \in 1..Len(basins) : basins[i] \in DiskIds)
    => /\ ret # None
       /\ ret[1].index =
            Flatten([k \in 1..Len(basins) |->
                        SelectSeq(Joined.index, LAMBDA b : b = basins[k])])
       /\ ~HasDuplicates(Joined.index) => ret[1].index = basins
       /\ ret[1].columns = Joined.columns
       /\ \A i \in 1..Len(ret[1].index) :
            \E j \in 1..Len(Joined.index) :
                /\ Joined.index[j] = ret[1].index[i]
                /\ \A c \in Range(Joined.columns) :
                       ret[1].data[c][i] = Joined.data[c][j]

\* C2 happens: two basins were requested against the table's order and
\* returned.
C2_Witness ==
    /\ Ended("attributes")
    /\ ret # None
    /\ Len(basins) = 2
    /\ basins[1] > basins[2]
    /\ Joined.index = <<basins[2], basins[1]>>
    /\ ret[1].index = basins

\* C3: in every returned attribute table the huc value of every row is a
\* string of exactly 2 characters, zero-padded on the left, also for basins
\* missing from the file that carries huc_02.
C3_HucTwoCharacters ==
    (Ended("attributes") /\ ret # None)
    => \A i \in 1..Len(ret[1].index) :
           /\ ret[1].data["huc"][i].t = "str"
           /\ Len(ret[1].data["huc"][i].s) = HucWidth
           /\ IsDigits(ret[1].data["huc"][i].s)

\* C4: without a filter the returned table is the full outer join of the
\* files on the basin identifier: its row keys are the union of the files'
\* identifiers, its columns the union of the files' columns without huc_02
\* and with huc, a basin missing from a file has missing values in that
\* file's columns and a basin of the file has the file's values.
C4_FullOuterJoin ==
    (Ended("attributes") /\ ret # None /\ basins = <<>>)
    => /\ Range(ret[1].index) = DiskIds
       /\ Range(ret[1].columns) = (DiskColumns \ {"huc_02"}) \cup {"huc"}
       /\ \A f \in 1..Len(attrFiles), i \in 1..Len(ret[1].index) :
            \A c \in Range(GroupColumns(attrFiles[f].group)) \ {"huc_02"} :
                LET ids == attrFiles[f].ids
                    cell == ret[1].data[c][i]
                IN IF ret[1].index[i] \notin Range(ids)
                   THEN IsMissing(cell)
                   ELSE \E k \in 1..Len(ids) :
                            /\ ids[k] = ret[1].index[i]
                            /\ ~IsMissing(cell)
                            /\ cell.n = FileCell(attrFiles[f].group, ids, c, k).n

\* C4 happens: two files were joined and a basin of one is missing from the
\* other.
C4_Witness ==
    /\ Ended("attributes")
    /\ ret # None
    /\ basins = <<>>
    /\ Len(attrFiles) = 2
    /\ \E i \in 1..Len(ret[1].index) : IsMissing(ret[1].data["p_mean"][i])
    /\ \E i \in 1..Len(ret[1].index) : ~IsMissing(ret[1].data["p_mean"][i])

\* C5: in every returned attribute table, with or without a filter and also
\* for a filter list that repeats an identifier, each basin identifier is a
\* row key at most once (read for files that list a basin once).
C5_UniqueRowKeys ==
    (Ended("attributes") /\ ret # None /\ OneRowPerBasin)
    => ~HasDuplicates(ret[1].index)

\* C6 as stated: for every file and every supplied area the returned series
\* has the length and date index of the input rows, holds the missing-value
\* marker where the input discharge is < 0 and the converted value, not the
\* marker, where it is >= 0.
C6_NegativeInputMasked ==
    (Ended("discharge") /\ ret # None)
    => /\ Len(ret[1].index) = Len(content.rows)
       /\ Len(ret[1].values) = Len(content.rows)
       /\ \A i \in 1..Len(content.rows) :
            /\ ret[1].index[i] = Midnight(content.rows[i])
            /\ content.rows[i].QObs < 0 => ret[1].values[i] = NotANumber
            /\ content.rows[i].QObs >= 0 => ret[1].values[i].t # "nan"

\* C6 amended: the same for every file and every supplied area > 0; the
\* value at an input >= 0 is the quotient of the input and the area, with the
\* input's sign.
C6_NegativeInputMaskedPositiveArea ==
    (Ended("discharge") /\ ret # None /\ area[1] > 0)
    => /\ Len(ret[1].index) = Len(content.rows)
       /\ Len(ret[1].values) = Len(content.rows)
       /\ \A i \in 1..Len(content.rows) :
            /\ ret[1].index[i] = Midnight(content.rows[i])
            /\ content.rows[i].QObs < 0 => ret[1].values[i] = NotANumber
            /\ content.rows[i].QObs >= 0 =>
                 ret[1].values[i] =
                    [t |-> "finite", sign |-> Sign(content.rows[i].QObs),
                     cfs |-> content.rows[i].QObs, area |-> area[1]]

\* C6 happens: a series with a negative, a zero or positive input came back
\* for a positive area.
C6_Witness ==
    /\ Ended("discharge")
    /\ ret # None
    /\ area[1] > 0
    /\ \E i, j \in 1..Len(content.rows) :
        /\ content.rows[i].QObs < 0
        /\ content.rows[j].QObs >= 0
        /\ ret[1].values[i] = NotANumber
        /\ ret[1].values[j] # NotANumber

\* C7: when the forcing or discharge loader searches and no file of the tree
\* is named after the basin, the call ends in FileNotFoundError and returns
\* nothing.
C7_NoMatchRaisesNotFound ==
    (/\ pc = "done"
     /\ fn \in {"forcings", "discharge"}
     /\ fn = "forcings" => dirExists
     /\ basin \notin Range(tree))
    => raised = NoFile /\ ret = None

\* C7 happens: a forcing tree with files of other basins only was searched.
C7_Witness ==
    /\ Ended("forcings")
    /\ tree # <<>>
    /\ basin \notin Range(tree)
    /\ raised = NoFile

\* C8: the forcing loader checks its directory before any search and ends
\* in OSError, not the not-found error, when it is missing; the discharge
\* loader checks nothing, searches, and ends in the same FileNotFoundError
\* for a missing directory as for a directory without a matching file.
C8_MissingDirectory ==
    /\ (fn = "forcings" /\ ~dirExists) => file_path = None
    /\ (Ended("forcings") /\ ~dirExists) =>
           raised = NoForcingDir /\ raised # NoFile /\ ret = None
    /\ (Ended("discharge") /\ ~dirExists) =>
           raised = NoFile /\ file_path = Some(<<>>) /\ ret = None
    /\ (Ended("discharge") /\ dirExists /\ basin \notin Range(tree)) =>
           raised = NoFile /\ file_path = Some(<<>>) /\ ret = None

\* C8 happens: a forcing call found its directory missing.
C8_Witness ==
    /\ Ended("forcings")
    /\ ~dirExists
    /\ raised = NoForcingDir

\* C9: when a call of any of the three loaders has ended, by return or by
\* any exception, no file it opened is still open.
C9_NoFileOpenAtExit == pc \in {"done", "idle"} => open = {}

\* C9 happens: a forcing call failed inside the with block, its file open.
C9_Witness ==
    /\ Ended("forcings")
    /\ raised \in {BadArea, BadTable, BadDate}
    /\ file_path # None
    /\ open = {}

\* C10: for a forcing or streamflow file whose rows carry valid calendar
\* dates the returned date index has one entry per row, entry i the
\* calendar date of row i at midnight, in file order.
C10_DateIndexFollowsRows ==
    (/\ pc = "done"
     /\ fn \in {"forcings", "discharge"}
     /\ ret # None
     /\ \A i \in 1..Len(content.rows) : ValidDay(content.rows[i]))
    => /\ Len(ReturnedIndex) = Len(content.rows)
       /\ \A i \in 1..Len(content.rows) : ReturnedIndex[i] = Midnight(content.rows[i])

\* C10 happens: a forcing file with a later day before an earlier one was
\* returned.
C10_Witness ==
    /\ Ended("forcings")
    /\ ret # None
    /\ Len(content.rows) = 2
    /\ content.rows[1].Mnth > content.rows[2].Mnth
    /\ ReturnedIndex[1].month > ReturnedIndex[2].month

====
